---- MODULE Spec2Model ----
\* FinOps insight pipeline (app/app.py, app/modules/insights.py,
\* app/modules/prometheus.py): per-namespace aggregation, efficiency scores,
\* rightsizing recommendations, anomaly detection and cost forecasts, with the
\* process-wide gauge registry they publish to.
EXTENDS Integers, Sequences, FiniteSets, TLC

VARIABLES prom_client, backend, request, result, gauges

vars == <<prom_client, backend, request, result, gauges>>

-----------------------------------------------------------------------------
\* Python floats are modelled as exact rationals <<numerator, denominator>>,
\* kept in lowest terms with a positive denominator, so that equal numbers are
\* equal values.

Abs(i) == IF i < 0 THEN -i ELSE i

RECURSIVE GCD(_, _)
GCD(a, b) == IF b = 0 THEN a ELSE GCD(b, a % b)

Rat(n, d) ==
    LET g == GCD(Abs(n), Abs(d))
        s == IF d < 0 THEN -1 ELSE 1
    IN  <<(s * n) \div g, (s * d) \div g>>

LCM(a, b) == (a \div GCD(a, b)) * b

RInt(i) == <<i, 1>>
RAdd(a, b) ==
    LET m == LCM(a[2], b[2])
    IN  Rat(a[1] * (m \div a[2]) + b[1] * (m \div b[2]), m)
RNeg(a) == <<-a[1], a[2]>>
RSub(a, b) == RAdd(a, RNeg(b))
RMul(a, b) ==
    LET g1 == GCD(Abs(a[1]), b[2])
        g2 == GCD(Abs(b[1]), a[2])
    IN  Rat((a[1] \div g1) * (b[1] \div g2), (a[2] \div g2) * (b[2] \div g1))
RDiv(a, b) == RMul(a, Rat(b[2], b[1]))
RLt(a, b) == a[1] * b[2] < b[1] * a[2]
RLe(a, b) == a[1] * b[2] <= b[1] * a[2]
RGt(a, b) == RLt(b, a)
RAbs(a) == <<Abs(a[1]), a[2]>>
\* Python's max(a, b) and min(a, b): the first argument wins a tie.
PyMax(a, b) == IF RGt(b, a) THEN b ELSE a
PyMin(a, b) == IF RLt(b, a) THEN b ELSE a

Zero == RInt(0)
Hundred == RInt(100)

-----------------------------------------------------------------------------
\* Configuration and policy constants.

CPU_HOURLY_COST == Rat(4, 100)
MEMORY_GB_HOURLY_COST == Rat(1, 100)
HoursPerMonth == 730
UtilizationCutoff == Rat(7, 10)
SafetyBuffer == Rat(13, 10)
MinRecommended == Rat(1, 10)
MinSavings == RInt(1)

Namespaces == {"a", "b"}

\* The gauge registry: a partial map from (gauge name, label values) to the
\* value last set.  labels(...).set(v) creates or overwrites one entry.
GaugeInc(g, key, v) == (key :> (IF key \in DOMAIN g THEN RAdd(g[key], v) ELSE v)) @@ g
GaugeReset(g, key, v) == (key :> v) @@ [k \in {x \in DOMAIN g : x[1] /= key[1]} |-> g[k]]
GaugeSet(g, key, v) == (key :> v) @@ g
NoGauges == <<>>

-----------------------------------------------------------------------------
\* EfficiencyAnalyzer

wasted_percent_unclamped(req, usage) ==
    IF RGt(req, Zero) THEN RMul(RDiv(RSub(req, usage), req), Hundred) ELSE Zero

wasted_percent(req, usage) ==
    IF RGt(req, Zero)
    THEN PyMax(Zero, RMul(RDiv(RSub(req, usage), req), Hundred))
    ELSE Zero

usage_ratio(req, usage) == IF RGt(req, Zero) THEN RDiv(usage, req) ELSE Zero

calculate_cost_efficiency(rd) ==
    LET wasted_cpu_percent == wasted_percent(rd.cpu_request, rd.cpu_usage)
        wasted_memory_percent == wasted_percent(rd.memory_request, rd.memory_usage)
        raw == RSub(Hundred, RDiv(RAdd(wasted_cpu_percent, wasted_memory_percent), RInt(2)))
    IN  [namespace |-> rd.namespace,
         efficiency_score |-> PyMax(Zero, PyMin(Hundred, raw)),
         wasted_cpu_percent |-> wasted_cpu_percent,
         wasted_memory_percent |-> wasted_memory_percent]

publish_efficiency(g, rd) ==
    LET e == calculate_cost_efficiency(rd)
        g1 == GaugeSet(g, <<"finops_efficiency_score", rd.namespace>>, e.efficiency_score)
        g2 == GaugeSet(g1, <<"finops_resource_waste", rd.namespace, "cpu">>, e.wasted_cpu_percent)
        g3 == GaugeSet(g2, <<"finops_resource_waste", rd.namespace, "memory">>, e.wasted_memory_percent)
        g4 == GaugeSet(g3, <<"finops_resource_utilization", rd.namespace, "cpu">>,
                       usage_ratio(rd.cpu_request, rd.cpu_usage))
    IN  GaugeSet(g4, <<"finops_resource_utilization", rd.namespace, "memory">>,
                 usage_ratio(rd.memory_request, rd.memory_usage))

-----------------------------------------------------------------------------
\* RecommendationEngine

\* str(max(1, x)): max keeps the int 1 unless x > 1, and str renders an int
\* without and a float with a fractional part.
PyStr(kind, r) == [str_of |-> kind, number |-> r]
limit_text_unfloored(x) == PyStr("float", x)

limit_text(x) == IF RGt(x, RInt(1)) THEN PyStr("float", x) ELSE PyStr("int", RInt(1))

underused_inclusive(req, usage) ==
    RGt(req, Zero) /\ RLe(RDiv(usage, req), UtilizationCutoff)

underused(req, usage) == RGt(req, Zero) /\ RLt(RDiv(usage, req), UtilizationCutoff)
recommended_request(usage) == PyMax(MinRecommended, RMul(usage, SafetyBuffer))
monthly_savings(req, usage, rate) ==
    RMul(RMul(RSub(req, recommended_request(usage)), rate), RInt(HoursPerMonth))

rightsizing(ns, type, req, usage, rate) ==
    IF underused(req, usage) /\ RGt(monthly_savings(req, usage, rate), MinSavings)
    THEN << [namespace |-> ns, recommendation_type |-> type,
             estimated_savings |-> monthly_savings(req, usage, rate),
             current_value |-> req,
             recommended_value |-> recommended_request(usage)] >>
    ELSE << >>

limit_advisory(ns, type, req, limit, factor) ==
    IF limit = Zero /\ RGt(req, Zero)
    THEN << [namespace |-> ns, recommendation_type |-> type,
             estimated_savings |-> Zero,
             current_value |-> "No limit",
             recommended_value |-> limit_text(RMul(req, factor))] >>
    ELSE << >>

generate_recommendations(rd) ==
    rightsizing(rd.namespace, "cpu_request_rightsizing", rd.cpu_request, rd.cpu_usage,
                CPU_HOURLY_COST)
    \o rightsizing(rd.namespace, "memory_request_rightsizing", rd.memory_request,
                   rd.memory_usage, MEMORY_GB_HOURLY_COST)
    \o limit_advisory(rd.namespace, "add_cpu_limits", rd.cpu_request, rd.cpu_limit, RInt(2))
    \o limit_advisory(rd.namespace, "add_memory_limits", rd.memory_request, rd.memory_limit,
                      Rat(3, 2))

\* The loop publishing only the items that save something.
RECURSIVE publish_savings_positive(_, _)
publish_savings_positive(g, recs) ==
    IF recs = << >> THEN g
    ELSE publish_savings_positive(
             IF RGt(Head(recs).estimated_savings, Zero)
             THEN GaugeSet(g, <<"finops_optimization_savings", Head(recs).namespace,
                               Head(recs).recommendation_type>>, Head(recs).estimated_savings)
             ELSE g,
             Tail(recs))

\* estimated_savings is a float on every Recommendation, so the isinstance
\* test passes for each item and each one sets its gauge.
RECURSIVE publish_savings(_, _)
publish_savings(g, recs) ==
    IF recs = << >> THEN g
    ELSE publish_savings(
             GaugeSet(g, <<"finops_optimization_savings", Head(recs).namespace,
                         Head(recs).recommendation_type>>, Head(recs).estimated_savings),
             Tail(recs))

-----------------------------------------------------------------------------
\* MetricsBackendClient (modules/prometheus.py)

\* Outcome of a call: a returned value or a raised exception.
Return(v) == [ok |-> TRUE, value |-> v]
Raise(exc, status) == [ok |-> FALSE, exc |-> exc, status_code |-> status]

\* float(text) on the sample texts of a query result; any other text raises
\* ValueError.
FloatText ==
    [t \in {"0", "0.05", "0.1", "0.5", "0.7", "1", "2", "3", "4", "5", "7", "10", "50"} |->
        CASE t = "0" -> RInt(0)
          [] t = "0.05" -> Rat(1, 20)
          [] t = "0.1" -> Rat(1, 10)
          [] t = "0.5" -> Rat(1, 2)
          [] t = "0.7" -> Rat(7, 10)
          [] t = "1" -> RInt(1)
          [] t = "2" -> RInt(2)
          [] t = "3" -> RInt(3)
          [] t = "4" -> RInt(4)
          [] t = "5" -> RInt(5)
          [] t = "7" -> RInt(7)
          [] t = "10" -> RInt(10)
          [] t = "50" -> RInt(50)]
py_float(text) ==
    IF text \in DOMAIN FloatText THEN Return(FloatText[text]) ELSE Raise("ValueError", 0)

\* An answer of the metrics store to one query: Failed (the execution fails
\* entirely) or the list of result items.
Failed == [failed |-> TRUE]
Answer(items) == [failed |-> FALSE, result |-> items]

\* The lazily initialised global client: PrometheusConnect when the connection
\* check passes, FallbackPrometheusClient when it raises.
get_prometheus_client(client, connect_ok) ==
    IF client = "None"
    THEN IF connect_ok THEN "PrometheusConnect" ELSE "FallbackPrometheusClient"
    ELSE client

\* client.custom_query: PrometheusConnect raises when the execution fails;
\* the fallback catches every exception and answers [].
custom_query(client, answer) ==
    IF answer.failed
    THEN IF client = "FallbackPrometheusClient"
         THEN Return(<< >>)
         ELSE Raise("PrometheusApiClientException", 0)
    ELSE Return(answer.result)

query_prometheus(client, answer) ==
    LET r == custom_query(client, answer)
    IN  IF r.ok THEN Return([data |-> [result |-> r.value]])
        ELSE Raise("HTTPException", 500)

extract_metric_value(response, default) ==
    IF Len(response.data.result) > 0 /\ "value" \in DOMAIN response.data.result[1]
    THEN py_float(response.data.result[1].value[2])
    ELSE Return(default)

-----------------------------------------------------------------------------
\* ResourceAggregator

\* The seven queries in the order get_namespace_resources issues them, each
\* with the record field it fills.
AggQueries ==
    << "cpu_request", "cpu_usage", "cpu_limit", "memory_request", "memory_usage",
       "memory_limit", "cost" >>

has_namespace(item) == "metric" \in DOMAIN item /\ "namespace" \in DOMAIN item.metric

collect_namespaces_valued(items) ==
    {items[i].metric.namespace :
        i \in {j \in 1..Len(items) : has_namespace(items[j]) /\ "value" \in DOMAIN items[j]}}

RECURSIVE collect_namespaces(_)
collect_namespaces(items) ==
    IF items = << >> THEN {}
    ELSE (IF has_namespace(Head(items)) THEN {Head(items).metric.namespace} ELSE {})
         \cup collect_namespaces(Tail(items))

empty_row ==
    [cpu_request |-> Zero, cpu_usage |-> Zero, cpu_limit |-> Zero, memory_request |-> Zero,
     memory_usage |-> Zero, memory_limit |-> Zero, cost |-> Zero]

\* One "Fill in ..." loop: every item with a namespace label and a value sets
\* the field of its namespace; float() of an unparsable text raises out of it.
RECURSIVE fill_field(_, _, _)
fill_field(results, items, field) ==
    IF items = << >> THEN Return(results)
    ELSE LET item == Head(items)
         IN  IF has_namespace(item) /\ "value" \in DOMAIN item
             THEN LET f == py_float(item.value[2])
                  IN  IF f.ok
                      THEN fill_field(
                               [results EXCEPT ![item.metric.namespace][field] = f.value],
                               Tail(items), field)
                      ELSE f
             ELSE fill_field(results, Tail(items), field)

RECURSIVE fill_all(_, _, _)
fill_all(results, responses, i) ==
    IF i > Len(AggQueries) THEN Return(results)
    ELSE LET r == fill_field(results, responses[i].data.result, AggQueries[i])
         IN  IF r.ok THEN fill_all(r.value, responses, i + 1) ELSE r

\* The responses of the seven query_prometheus calls, or the first exception.
RECURSIVE run_queries(_, _, _, _)
run_queries(client, answers, i, done) ==
    IF i > Len(AggQueries) THEN Return(done)
    ELSE LET r == query_prometheus(client, answers[AggQueries[i]])
         IN  IF r.ok THEN run_queries(client, answers, i + 1, Append(done, r.value)) ELSE r

\* order: the traversal order of the namespace set, which Python leaves open.
RECURSIVE to_records(_, _)
to_records(results, order) ==
    IF order = << >> THEN << >>
    ELSE (IF Head(order) \in DOMAIN results
          THEN << [namespace |-> Head(order)] @@ results[Head(order)] >> ELSE << >>)
         \o to_records(results, Tail(order))

get_namespace_resources(client, answers, order) ==
    LET q == run_queries(client, answers, 1, << >>)
    IN  IF ~q.ok THEN q
        ELSE LET all_namespaces ==
                     UNION {collect_namespaces(q.value[i].data.result) : i \in 1..Len(AggQueries)}
                 filled == fill_all([n \in all_namespaces |-> empty_row], q.value, 1)
             IN  IF filled.ok THEN Return(to_records(filled.value, order)) ELSE filled

-----------------------------------------------------------------------------
\* Statistics (numpy)

\* The sum of xs[lo..hi], by halves.
RECURSIVE RSumIn(_, _, _)
RSumIn(xs, lo, hi) ==
    IF lo > hi THEN Zero
    ELSE IF lo = hi THEN xs[lo]
    ELSE LET mid == (lo + hi) \div 2
         IN  RAdd(RSumIn(xs, lo, mid), RSumIn(xs, mid + 1, hi))
RSum(xs) == RSumIn(xs, 1, Len(xs))

np_mean(xs) == RDiv(RSum(xs), RInt(Len(xs)))

variance(xs) ==
    LET m == np_mean(xs)
    IN  np_mean([i \in 1..Len(xs) |-> RMul(RSub(xs[i], m), RSub(xs[i], m))])

\* Integer square root by bisection: the largest r with r * r <= n.
RECURSIVE ISqrtIn(_, _, _)
ISqrtIn(n, lo, hi) ==
    IF lo >= hi THEN lo
    ELSE LET mid == (lo + hi + 1) \div 2
         IN  IF mid * mid <= n THEN ISqrtIn(n, mid, hi) ELSE ISqrtIn(n, lo, mid - 1)
ISqrt(n) == ISqrtIn(n, 0, IF n < 46340 THEN n ELSE 46340)

\* The square root of a rational whose root is rational; the series of the
\* model are drawn so that their variance has one (HasExactSqrt).
HasExactSqrt(r) == ISqrt(r[1]) * ISqrt(r[1]) = r[1] /\ ISqrt(r[2]) * ISqrt(r[2]) = r[2]
RSqrt(r) == <<ISqrt(r[1]), ISqrt(r[2])>>

np_std(xs) == RSqrt(variance(xs))

\* The least-squares slope np.polyfit(x, y, 1) fits to y over x = 0..n-1.
polyfit_slope(ys) ==
    LET n == Len(ys)
        sx == RInt((n * (n - 1)) \div 2)
        sxx == RInt(((n - 1) * n * (2 * n - 1)) \div 6)
        sy == RSum(ys)
        sxy == RSum([i \in 1..n |-> RMul(RInt(i - 1), ys[i])])
    IN  RDiv(RSub(RMul(RInt(n), sxy), RMul(sx, sy)),
             RSub(RMul(RInt(n), sxx), RMul(sx, sx)))

\* data_points.append(float(value[1])) over result[0]['values']; a missing
\* 'values' key raises KeyError, an unparsable text ValueError.
parse_points(values) ==
    IF \E i \in 1..Len(values) : ~py_float(values[i][2]).ok
    THEN Raise("ValueError", 0)
    ELSE Return([i \in 1..Len(values) |-> py_float(values[i][2]).value])

data_points_of(first) ==
    IF "values" \in DOMAIN first THEN parse_points(first.values) ELSE Raise("KeyError", 0)

-----------------------------------------------------------------------------
\* AnomalyDetector

MinHourlyPoints == 24

enough_hourly_inclusive(n) == n >= MinHourlyPoints

enough_hourly(n) == n > MinHourlyPoints

anomaly_score_flat_is_normal(current_cost, mean_cost, std_cost) ==
    IF RGt(std_cost, Zero)
    THEN LET z_score == RAbs(RDiv(RSub(current_cost, mean_cost), std_cost))
         IN  PyMin(Hundred, PyMax(Zero, RMul(RSub(z_score, RInt(1)), RInt(50))))
    ELSE Zero

anomaly_score_of(current_cost, mean_cost, std_cost) ==
    IF RGt(std_cost, Zero)
    THEN LET z_score == RAbs(RDiv(RSub(current_cost, mean_cost), std_cost))
         IN  PyMin(Hundred, PyMax(Zero, RMul(RSub(z_score, RInt(1)), RInt(50))))
    ELSE IF current_cost = mean_cost THEN Zero ELSE Hundred

increase_percent_of(current_cost, mean_cost) ==
    IF RGt(mean_cost, Zero)
    THEN RMul(RDiv(RSub(current_cost, mean_cost), mean_cost), Hundred)
    ELSE Zero

anomaly_degraded(current_cost) ==
    [anomaly_score |-> Zero, increase_percent |-> Zero, mean_cost |-> current_cost]

\* The body of the try block: the statistics, or the exception it raises.
anomaly_analysis(hourly_cost_data, current_cost) ==
    IF hourly_cost_data.data.result /= << >>
    THEN LET pts == data_points_of(hourly_cost_data.data.result[1])
         IN  IF ~pts.ok THEN pts
             ELSE IF enough_hourly(Len(pts.value))
             THEN LET mean_cost == np_mean(pts.value)
                      std_cost == np_std(pts.value)
                  IN  Return([anomaly_score |-> anomaly_score_of(current_cost, mean_cost, std_cost),
                              increase_percent |-> increase_percent_of(current_cost, mean_cost),
                              mean_cost |-> mean_cost])
             ELSE Return(anomaly_degraded(current_cost))
    ELSE Return(anomaly_degraded(current_cost))

detect_cost_anomalies(namespace, client, hourly_answer, current_answer) ==
    LET hourly_cost_data == query_prometheus(client, hourly_answer)
        current_cost_data == query_prometheus(client, current_answer)
    IN  IF ~hourly_cost_data.ok THEN hourly_cost_data
        ELSE IF ~current_cost_data.ok THEN current_cost_data
        ELSE LET current_cost == extract_metric_value(current_cost_data.value, Zero)
             IN  IF ~current_cost.ok THEN current_cost
                 ELSE LET a == anomaly_analysis(hourly_cost_data.value, current_cost.value)
                          r == IF a.ok THEN a.value ELSE anomaly_degraded(current_cost.value)
                      IN  Return([namespace |-> namespace,
                                  usual_cost |-> r.mean_cost,
                                  current_cost |-> current_cost.value,
                                  increase_percent |-> r.increase_percent,
                                  anomaly_score |-> r.anomaly_score])

publish_anomaly(g, anomaly) ==
    GaugeSet(g, <<"finops_anomaly_score", anomaly.namespace>>, anomaly.anomaly_score)

-----------------------------------------------------------------------------
\* ForecastEngine

MinDailyPoints == 7
ForecastDays == 30

enough_daily_inclusive(n) == n >= MinDailyPoints

enough_daily(n) == n > MinDailyPoints

forecast_degraded(current_cost) == [trend_percent |-> Zero, forecasted_cost |-> current_cost]

forecast_analysis(daily_cost_data, current_cost) ==
    IF daily_cost_data.data.result /= << >>
    THEN LET pts == data_points_of(daily_cost_data.data.result[1])
         IN  IF ~pts.ok THEN pts
             ELSE IF enough_daily(Len(pts.value))
             THEN LET slope == polyfit_slope(pts.value)
                      trend_percent ==
                          IF RGt(current_cost, Zero)
                          THEN RMul(RDiv(RMul(slope, RInt(ForecastDays)), current_cost), Hundred)
                          ELSE Zero
                  IN  Return([trend_percent |-> trend_percent,
                              forecasted_cost |->
                                  RMul(current_cost,
                                       RAdd(RInt(1), RDiv(trend_percent, Hundred)))])
             ELSE Return(forecast_degraded(current_cost))
    ELSE Return(forecast_degraded(current_cost))

generate_cost_forecast(namespace, client, daily_answer, current_answer) ==
    LET daily_cost_data == query_prometheus(client, daily_answer)
        current_cost_data == query_prometheus(client, current_answer)
    IN  IF ~daily_cost_data.ok THEN daily_cost_data
        ELSE IF ~current_cost_data.ok THEN current_cost_data
        ELSE LET current_cost == extract_metric_value(current_cost_data.value, Zero)
             IN  IF ~current_cost.ok THEN current_cost
                 ELSE LET a == forecast_analysis(daily_cost_data.value, current_cost.value)
                          r == IF a.ok THEN a.value ELSE forecast_degraded(current_cost.value)
                      IN  Return([namespace |-> namespace,
                                  current_monthly_cost |-> current_cost.value,
                                  forecasted_monthly_cost |-> r.forecasted_cost,
                                  trend_percent |-> r.trend_percent])

publish_forecast(g, forecast) ==
    GaugeSet(g, <<"finops_cost_forecast", forecast.namespace>>, forecast.forecasted_monthly_cost)

-----------------------------------------------------------------------------
\* Inputs of the model.

MaxHourly == 26
MaxDaily == 9

Requests == {Zero, Rat(1, 20), Rat(1, 10), Rat(1, 2), RInt(1), RInt(2)}
Usages == {Zero, Rat(1, 20), Rat(3, 10), Rat(1, 2), Rat(7, 10), RInt(2)}
Limits == {Zero, RInt(2)}

ResourceDatas ==
    [namespace : {"a"}, cpu_usage : Usages, cpu_request : Requests, cpu_limit : Limits,
     memory_usage : Usages, memory_request : Requests, memory_limit : Limits, cost : {Zero}]

NoLabels == [x \in {} |-> ""]
Sample(text) == [metric |-> NoLabels, value |-> <<0, text>>]

\* A range-query item of n points: k points of cost a followed by n - k of cost b.
Series(n, k, a, b) ==
    [metric |-> NoLabels, values |-> [i \in 1..n |-> <<i, IF i <= k THEN a ELSE b>>]]
points_of(item) == [i \in 1..Len(item.values) |-> FloatText[item.values[i][2]]]

SeriesCosts == {"0", "5", "10"}

HourlySeries ==
    {s \in {Series(n, k, a, b) : n \in 0..MaxHourly, k \in {0, 1, 5, 9, 13}, a \in SeriesCosts,
                                  b \in SeriesCosts} :
        Len(s.values) = 0 \/ HasExactSqrt(variance(points_of(s)))}
DailySeries ==
    {Series(n, k, a, b) : n \in 0..MaxDaily, k \in {0, 2, 4}, a \in SeriesCosts, b \in SeriesCosts}

\* Answers that carry no usable series: a failed execution, no result, an item
\* without 'values', a point whose text is no number.
BrokenSeries ==
    {Failed, Answer(<< >>), Answer(<< [metric |-> NoLabels] >>),
     Answer(<< [metric |-> NoLabels, values |-> << <<1, "5">>, <<2, "n/a">> >>] >>)}
HourlyAnswers == BrokenSeries \cup {Answer(<<s>>) : s \in HourlySeries}
DailyAnswers == BrokenSeries \cup {Answer(<<s>>) : s \in DailySeries}

CurrentTexts == {"0", "1", "3", "4", "5", "7", "10", "50", "n/a"}
CurrentAnswers ==
    {Failed, Answer(<< >>), Answer(<< [metric |-> NoLabels] >>)}
    \cup {Answer(<< Sample(t) >>) : t \in CurrentTexts}
MonthlyAnswers ==
    {Failed, Answer(<< >>)} \cup {Answer(<< Sample(t) >>) : t \in {"0", "10", "50", "n/a"}}

Pending == [done |-> FALSE]
Done(out) == [done |-> TRUE, out |-> out]

-----------------------------------------------------------------------------
\* Direct calls of the analyzers.

InitEfficiency ==
    /\ request \in [op : {"calculate_cost_efficiency", "generate_recommendations"},
                    resource_data : ResourceDatas]
    /\ backend = [connect_ok |-> TRUE]

InitAnomaly ==
    /\ request = [op |-> "detect_cost_anomalies", namespace |-> "a"]
    /\ backend \in [connect_ok : BOOLEAN, hourly : [{"a"} -> HourlyAnswers],
                    current : [{"a"} -> CurrentAnswers]]

InitForecast ==
    /\ request = [op |-> "generate_cost_forecast", namespace |-> "a"]
    /\ backend \in [connect_ok : BOOLEAN, daily : [{"a"} -> DailyAnswers],
                    monthly : [{"a"} -> MonthlyAnswers]]

Init ==
    /\ prom_client = "None"
    /\ gauges = NoGauges
    /\ result = Pending
    /\ (InitEfficiency \/ InitAnomaly \/ InitForecast)

CalculateCostEfficiency ==
    /\ ~result.done
    /\ request.op = "calculate_cost_efficiency"
    /\ result' = Done(Return(calculate_cost_efficiency(request.resource_data)))
    /\ gauges' = publish_efficiency(gauges, request.resource_data)
    /\ UNCHANGED <<prom_client, backend, request>>

GenerateRecommendations ==
    /\ ~result.done
    /\ request.op = "generate_recommendations"
    /\ result' = Done(Return(generate_recommendations(request.resource_data)))
    /\ gauges' = publish_savings(gauges, generate_recommendations(request.resource_data))
    /\ UNCHANGED <<prom_client, backend, request>>

DetectCostAnomalies ==
    /\ ~result.done
    /\ request.op = "detect_cost_anomalies"
    /\ LET client == get_prometheus_client(prom_client, backend.connect_ok)
           out == detect_cost_anomalies(request.namespace, client,
                                        backend.hourly[request.namespace],
                                        backend.current[request.namespace])
       IN  /\ prom_client' = client
           /\ result' = Done(out)
           /\ gauges' = IF out.ok THEN publish_anomaly(gauges, out.value) ELSE gauges
    /\ UNCHANGED <<backend, request>>

GenerateCostForecast ==
    /\ ~result.done
    /\ request.op = "generate_cost_forecast"
    /\ LET client == get_prometheus_client(prom_client, backend.connect_ok)
           out == generate_cost_forecast(request.namespace, client,
                                         backend.daily[request.namespace],
                                         backend.monthly[request.namespace])
       IN  /\ prom_client' = client
           /\ result' = Done(out)
           /\ gauges' = IF out.ok THEN publish_forecast(gauges, out.value) ELSE gauges
    /\ UNCHANGED <<backend, request>>

Next ==
    \/ CalculateCostEfficiency
    \/ GenerateRecommendations
    \/ DetectCostAnomalies
    \/ GenerateCostForecast

Spec == Init /\ [][Next]_vars

-----------------------------------------------------------------------------
\* HTTP handlers (app.py)

\* str(e) of the exceptions an analyzer lets out, as the parts of the text:
\* float() names the text it could not convert; the HTTPException of
\* query_prometheus prints its status and its detail.
py_str(e) ==
    IF e.exc = "ValueError" THEN << "could not convert string to float" >>
    ELSE << "500", "Unexpected error" >>

\* The function name of the analyzer behind each list of a response.
AnalyzerOf(kind) ==
    CASE kind = "cost_efficiencies" -> "calculate_cost_efficiency"
      [] kind = "recommendations" -> "generate_recommendations"
      [] kind = "cost_anomalies" -> "detect_cost_anomalies"
      [] kind = "cost_forecasts" -> "generate_cost_forecast"

\* handle_errors with a status taken from the kind of the exception.
handle_errors_by_kind(func, out) ==
    IF out.ok THEN out
    ELSE [ok |-> FALSE, exc |-> "HTTPException",
          status_code |-> IF out.exc = "ValueError" THEN 400 ELSE 500,
          detail |-> << "Error processing request" >> \o py_str(out),
          logged |-> << "Error in", func >> \o py_str(out)]

\* handle_errors: any exception of the wrapped call is logged under the name
\* of the wrapped function and becomes HTTPException(500) whose detail is the
\* text of the exception.
handle_errors(func, out) ==
    IF out.ok THEN out
    ELSE [ok |-> FALSE, exc |-> "HTTPException", status_code |-> 500,
          detail |-> << "Error processing request" >> \o py_str(out),
          logged |-> << "Error in", func >> \o py_str(out)]

\* An analyzer that answers one object contributes a list of one element.
as_list(r) == IF r.ok THEN Return(<< r.value >>) ELSE r

\* The analyzer an endpoint applies to one aggregated record.
run_analyzer(kind, client, bk, rd) ==
    CASE kind = "cost_efficiencies" -> Return(<< calculate_cost_efficiency(rd) >>)
      [] kind = "recommendations" -> Return(generate_recommendations(rd))
      [] kind = "cost_anomalies" ->
           as_list(detect_cost_anomalies(rd.namespace, client, bk.hourly[rd.namespace],
                                         bk.current[rd.namespace]))
      [] kind = "cost_forecasts" ->
           as_list(generate_cost_forecast(rd.namespace, client, bk.daily[rd.namespace],
                                          bk.monthly[rd.namespace]))

\* The gauges an analyzer sets before it returns.
publish(kind, g, rd, items) ==
    CASE kind = "cost_efficiencies" -> publish_efficiency(g, rd)
      [] kind = "recommendations" -> publish_savings(g, items)
      [] kind = "cost_anomalies" -> publish_anomaly(g, items[1])
      [] kind = "cost_forecasts" -> publish_forecast(g, items[1])

\* One analyzer applied to one record: its outcome and the gauges after it.
analyzed(kind, rd, g, out) ==
    [out |-> out, gauges |-> IF out.ok THEN publish(kind, g, rd, out.value) ELSE g]

analyze(kind, client, bk, rd, g) ==
    analyzed(kind, rd, g, run_analyzer(kind, client, bk, rd))

\* [handle_errors(f, data) for data in resource_data]: the list built so far is
\* dropped when one call raises; the gauges already set stay set.
RECURSIVE for_each(_, _, _, _, _, _)
RECURSIVE for_each_next(_, _, _, _, _, _)
for_each(kind, client, bk, records, acc, g) ==
    IF records = << >> THEN [out |-> Return(acc), gauges |-> g]
    ELSE for_each_next(kind, client, bk, Tail(records), acc,
                       analyze(kind, client, bk, Head(records), g))

for_each_next(kind, client, bk, rest, acc, r) ==
    IF r.out.ok
    THEN for_each(kind, client, bk, rest, acc \o r.out.value, r.gauges)
    ELSE [out |-> handle_errors(AnalyzerOf(kind), r.out), gauges |-> r.gauges]

\* The analyzers an endpoint runs over the aggregated records, in order, with
\* the key of each list in the response body.
EndpointKinds(path) ==
    CASE path = "/cost-efficiency" -> << "cost_efficiencies" >>
      [] path = "/recommendations" -> << "recommendations" >>
      [] path = "/cost-anomalies" -> << "cost_anomalies" >>
      [] path = "/cost-forecasts" -> << "cost_forecasts" >>
      [] path = "/all-insights" -> << "cost_efficiencies", "recommendations", "cost_anomalies", "cost_forecasts" >>

RECURSIVE run_kinds(_, _, _, _, _, _)
RECURSIVE run_kinds_next(_, _, _, _, _, _)
run_kinds(kinds, client, bk, records, body, g) ==
    IF kinds = << >> THEN [out |-> Return(body), gauges |-> g]
    ELSE run_kinds_next(kinds, client, bk, records, body,
                        for_each(Head(kinds), client, bk, records, << >>, g))

run_kinds_next(kinds, client, bk, records, body, r) ==
    IF r.out.ok
    THEN run_kinds(Tail(kinds), client, bk, records,
                   (Head(kinds) :> r.out.value) @@ body, r.gauges)
    ELSE r

\* The reply of an endpoint (the outcome of the aggregation, the status code
\* FastAPI answers with, the body or the detail of the error, the line
\* handle_errors logged) and the gauges afterwards.
error_reply(resources, e) ==
    [resources |-> resources, status_code |-> e.status_code, detail |-> e.detail,
     logged |-> e.logged]

reply_of(resources, r) ==
    IF r.out.ok
    THEN [reply |-> [resources |-> resources, status_code |-> 200, body |-> r.out.value],
          gauges |-> r.gauges]
    ELSE [reply |-> error_reply(resources, r.out), gauges |-> r.gauges]

analyze_resources(path, client, bk, resources, g) ==
    IF ~resources.ok
    THEN [reply |-> error_reply(resources, handle_errors("get_namespace_resources", resources)),
          gauges |-> g]
    ELSE reply_of(resources,
                  run_kinds(EndpointKinds(path), client, bk, resources.value, << >>, g))

endpoint(path, client, bk, order, g) ==
    analyze_resources(path, client, bk, get_namespace_resources(client, bk.agg, order), g)

-----------------------------------------------------------------------------
\* Requests served over HTTP.

MaxDeviations == 2

AggNames == {AggQueries[i] : i \in 1..Len(AggQueries)}
Item(ns, text) == [metric |-> [namespace |-> ns], value |-> <<0, text>>]

\* Every query answers for both namespaces, or none has any data.
FullAgg ==
    [q \in AggNames |->
        CASE q = "cpu_request" -> Answer(<< Item("a", "1"), Item("b", "2") >>)
          [] q = "cpu_usage" -> Answer(<< Item("a", "0.5"), Item("b", "0.1") >>)
          [] q = "cpu_limit" -> Answer(<< Item("a", "2"), Item("b", "0") >>)
          [] q = "memory_request" -> Answer(<< Item("a", "4"), Item("b", "7") >>)
          [] q = "memory_usage" -> Answer(<< Item("a", "3"), Item("b", "0.7") >>)
          [] q = "memory_limit" -> Answer(<< Item("a", "5"), Item("b", "10") >>)
          [] q = "cost" -> Answer(<< Item("a", "50"), Item("b", "5") >>)]
EmptyAgg == [q \in AggNames |-> Answer(<< >>)]
OnlyA == [EmptyAgg EXCEPT !["cpu_request"] = Answer(<< Item("a", "1") >>)]

\* A failed execution, one or two namespaces, a label without a value, a
\* value without a label, a text that is no number.
AggAnswers ==
    {Failed,
     Answer(<< Item("a", "1") >>),
     Answer(<< Item("b", "2"), Item("a", "0.5") >>),
     Answer(<< [metric |-> [namespace |-> "b"]] >>),
     Answer(<< Sample("1") >>),
     Answer(<< Item("b", "n/a") >>)}

\* The aggregate answers: a base in which up to MaxDeviations queries answer
\* something else.
AggBackends ==
    UNION {UNION {{[q \in AggNames |-> IF q \in D THEN dev[q] ELSE base[q]] :
                      dev \in [D -> AggAnswers]} :
                  D \in {S \in SUBSET AggNames : Cardinality(S) <= MaxDeviations}} :
           base \in {EmptyAgg, FullAgg}}

Orders == {<< "a", "b" >>, << "b", "a" >>}

GoodHourly == Answer(<< Series(25, 5, "5", "0") >>)
GoodDaily == Answer(<< Series(8, 4, "5", "10") >>)
Unusable == Answer(<< [metric |-> NoLabels] >>)
GoodCurrent == Answer(<< Sample("5") >>)
Unparsable == Answer(<< Sample("n/a") >>)

InitAggregate ==
    /\ request = [op |-> "GET", path |-> "/cost-efficiency"]
    /\ backend \in [connect_ok : BOOLEAN, agg : AggBackends]

InitRecommendations ==
    /\ request = [op |-> "GET", path |-> "/recommendations"]
    /\ backend \in [connect_ok : BOOLEAN, agg : {FullAgg, OnlyA, [FullAgg EXCEPT !["cost"] = Failed]}]

InitAnomalies ==
    /\ request = [op |-> "GET", path |-> "/cost-anomalies"]
    /\ backend \in [connect_ok : BOOLEAN, agg : {FullAgg, OnlyA},
                    hourly : [Namespaces -> {Failed, GoodHourly, Unusable}],
                    current : [Namespaces -> {Failed, GoodCurrent, Unparsable}]]

InitForecasts ==
    /\ request = [op |-> "GET", path |-> "/cost-forecasts"]
    /\ backend \in [connect_ok : BOOLEAN, agg : {FullAgg, OnlyA},
                    daily : [Namespaces -> {Failed, GoodDaily, Unusable}],
                    monthly : [Namespaces -> {Failed, GoodCurrent, Unparsable}]]

InitAllInsights ==
    /\ request = [op |-> "GET", path |-> "/all-insights"]
    /\ backend \in [connect_ok : BOOLEAN, agg : {FullAgg, OnlyA},
                    hourly : [Namespaces -> {GoodHourly, Unusable}],
                    current : [Namespaces -> {GoodCurrent, Unparsable}],
                    daily : [Namespaces -> {GoodDaily, Unusable}],
                    monthly : [Namespaces -> {GoodCurrent, Unparsable}]]

InitHttp ==
    /\ prom_client = "None"
    /\ gauges = NoGauges
    /\ result = Pending
    /\ (InitAggregate \/ InitRecommendations \/ InitAnomalies \/ InitForecasts
        \/ InitAllInsights)

Respond(client, response) ==
    /\ prom_client' = client
    /\ result' = Done(response.reply)
    /\ gauges' = response.gauges

Serve(path) ==
    /\ ~result.done
    /\ request.op = "GET"
    /\ request.path = path
    /\ \E order \in Orders :
          Respond(get_prometheus_client(prom_client, backend.connect_ok),
                  endpoint(path, get_prometheus_client(prom_client, backend.connect_ok),
                           backend, order, gauges))
    /\ UNCHANGED <<backend, request>>

get_cost_efficiency == Serve("/cost-efficiency")
get_recommendations == Serve("/recommendations")
get_cost_anomalies == Serve("/cost-anomalies")
get_cost_forecasts == Serve("/cost-forecasts")
get_all_insights == Serve("/all-insights")

NextHttp ==
    \/ get_cost_efficiency
    \/ get_recommendations
    \/ get_cost_anomalies
    \/ get_cost_forecasts
    \/ get_all_insights

SpecHttp == InitHttp /\ [][NextHttp]_vars

-----------------------------------------------------------------------------
\* Properties of the analyzers.

Called(op) == result.done /\ request.op = op

InRange(x) == RLe(Zero, x) /\ RLe(x, Hundred)

\* What an answer holds: a well-formed series, its points, a usable current cost.
HasSeries(ans) ==
    /\ ~ans.failed
    /\ ans.result /= << >>
    /\ "values" \in DOMAIN ans.result[1]
    /\ \A i \in 1..Len(ans.result[1].values) : ans.result[1].values[i][2] \in DOMAIN FloatText
NoSeries(ans) == ~ans.failed /\ ans.result = << >>
PointsOf(ans) == points_of(ans.result[1])
HasValue(ans) == ans.result /= << >> /\ "value" \in DOMAIN ans.result[1]
CurrentUsable(ans) ==
    ~ans.failed /\ (HasValue(ans) => ans.result[1].value[2] \in DOMAIN FloatText)
CurrentOf(ans) == IF HasValue(ans) THEN FloatText[ans.result[1].value[2]] ELSE Zero

\* C2: every score field stays in its documented range: the efficiency score
\* and both waste percentages lie in [0,100] for every record with
\* non-negative fields (waste 0 when the request is 0 or usage exceeds the
\* request, score 100 when both requests are 0), and the anomaly score of
\* every returned anomaly result lies in [0,100].
C2_ScoresInRange ==
    /\ Called("calculate_cost_efficiency") =>
         LET rd == request.resource_data
             e == result.out.value
         IN  /\ InRange(e.efficiency_score)
             /\ InRange(e.wasted_cpu_percent)
             /\ InRange(e.wasted_memory_percent)
             /\ (rd.cpu_request = Zero \/ RGt(rd.cpu_usage, rd.cpu_request))
                    => e.wasted_cpu_percent = Zero
             /\ (rd.memory_request = Zero \/ RGt(rd.memory_usage, rd.memory_request))
                    => e.wasted_memory_percent = Zero
             /\ (rd.cpu_request = Zero /\ rd.memory_request = Zero)
                    => e.efficiency_score = Hundred
    /\ (Called("detect_cost_anomalies") /\ result.out.ok) =>
         InRange(result.out.value.anomaly_score)

C2_Witness ==
    /\ Called("calculate_cost_efficiency")
    /\ RGt(request.resource_data.cpu_usage, request.resource_data.cpu_request)
    /\ RGt(request.resource_data.cpu_request, Zero)
    /\ RGt(result.out.value.wasted_memory_percent, Zero)
    /\ RLt(result.out.value.efficiency_score, Hundred)

\* C3 as stated: generate_cost_forecast never raises, it always returns a
\* ForecastResult.
C3_ForecastNeverRaises == Called("generate_cost_forecast") => result.out.ok

\* C5: an hourly series of 24 or fewer points, or no series at all, yields
\* anomaly_score = 0, increase_percent = 0 and usual_cost = current_cost for
\* every current cost; a series of 25 points is analysed: its usual_cost is
\* the mean of the series.
C5_ShortSeriesIsNeutral ==
    Called("detect_cost_anomalies") =>
        LET hourly == backend.hourly[request.namespace]
            current == backend.current[request.namespace]
        IN  /\ (/\ CurrentUsable(current)
                /\ NoSeries(hourly) \/ (HasSeries(hourly) /\ Len(PointsOf(hourly)) <= 24))
               => /\ result.out.ok
                  /\ result.out.value.anomaly_score = Zero
                  /\ result.out.value.increase_percent = Zero
                  /\ result.out.value.usual_cost = CurrentOf(current)
                  /\ result.out.value.current_cost = CurrentOf(current)
            /\ (CurrentUsable(current) /\ HasSeries(hourly) /\ Len(PointsOf(hourly)) = 25)
               => /\ result.out.ok
                  /\ result.out.value.usual_cost = np_mean(PointsOf(hourly))

C5_Witness ==
    /\ Called("detect_cost_anomalies")
    /\ HasSeries(backend.hourly[request.namespace])
    /\ Len(PointsOf(backend.hourly[request.namespace])) = 24
    /\ result.out.ok
    /\ result.out.value.current_cost /= np_mean(PointsOf(backend.hourly[request.namespace]))
    /\ result.out.value.usual_cost = result.out.value.current_cost

\* C6: a daily series of 7 or fewer points, or no series at all, yields
\* trend_percent = 0 and forecasted_monthly_cost = current_monthly_cost for
\* every current monthly cost.
C6_ShortSeriesKeepsCost ==
    Called("generate_cost_forecast") =>
        LET daily == backend.daily[request.namespace]
            monthly == backend.monthly[request.namespace]
        IN  (/\ CurrentUsable(monthly)
             /\ NoSeries(daily) \/ (HasSeries(daily) /\ Len(PointsOf(daily)) <= 7))
            => /\ result.out.ok
               /\ result.out.value.trend_percent = Zero
               /\ result.out.value.current_monthly_cost = CurrentOf(monthly)
               /\ result.out.value.forecasted_monthly_cost = CurrentOf(monthly)

C6_Witness ==
    /\ Called("generate_cost_forecast")
    /\ HasSeries(backend.daily[request.namespace])
    /\ Len(PointsOf(backend.daily[request.namespace])) = 7
    /\ PointsOf(backend.daily[request.namespace])[1] /= PointsOf(backend.daily[request.namespace])[7]
    /\ result.out.ok
    /\ RGt(result.out.value.current_monthly_cost, Zero)
    /\ result.out.value.trend_percent = Zero

\* The recommendations of one type among those returned.
OfType(recs, type) == {i \in 1..Len(recs) : recs[i].recommendation_type = type}

\* The rightsizing rule, restated: recommended = max(0.1, usage x 1.3) and
\* savings = (request - recommended) x monthly rate, with the monthly rate
\* 0.04 x 730 = 29.2 for CPU and 0.01 x 730 = 7.3 for memory.
RuleRecommended(usage) ==
    IF RGt(RMul(usage, Rat(13, 10)), Rat(1, 10)) THEN RMul(usage, Rat(13, 10)) ELSE Rat(1, 10)
RuleSavings(req, usage, monthly_rate) == RMul(RSub(req, RuleRecommended(usage)), monthly_rate)
RuleEmits(req, usage, monthly_rate) ==
    /\ RGt(req, Zero)
    /\ RLt(RMul(usage, RInt(10)), RMul(req, RInt(7)))
    /\ RGt(RuleSavings(req, usage, monthly_rate), RInt(1))

RightsizingAsRuled(recs, type, req, usage, monthly_rate) ==
    IF RuleEmits(req, usage, monthly_rate)
    THEN /\ Cardinality(OfType(recs, type)) = 1
         /\ \A i \in OfType(recs, type) :
                /\ recs[i].current_value = req
                /\ recs[i].recommended_value = RuleRecommended(usage)
                /\ recs[i].estimated_savings = RuleSavings(req, usage, monthly_rate)
    ELSE OfType(recs, type) = {}

\* C7: for CPU and memory independently, a rightsizing recommendation is
\* emitted exactly when request > 0, usage/request < 0.7 and savings > 1.0,
\* and it carries current_value = request, recommended_value = recommended
\* and estimated_savings = savings; usage/request >= 0.7 never yields one.
C7_RightsizingExactlyWhenRuled ==
    Called("generate_recommendations") =>
        LET rd == request.resource_data
            recs == result.out.value
        IN  /\ RightsizingAsRuled(recs, "cpu_request_rightsizing", rd.cpu_request,
                                  rd.cpu_usage, Rat(292, 10))
            /\ RightsizingAsRuled(recs, "memory_request_rightsizing", rd.memory_request,
                                  rd.memory_usage, Rat(73, 10))

C7_Witness ==
    /\ Called("generate_recommendations")
    /\ OfType(result.out.value, "cpu_request_rightsizing") /= {}
    /\ OfType(result.out.value, "memory_request_rightsizing") = {}
    /\ RGt(request.resource_data.memory_request, Zero)
    /\ RLt(RMul(request.resource_data.memory_usage, RInt(10)),
           RMul(request.resource_data.memory_request, RInt(7)))
    /\ RGt(RuleSavings(request.resource_data.memory_request,
                       request.resource_data.memory_usage, Rat(73, 10)), Zero)

\* The limit advisory for one resource: emitted exactly when limit == 0 and
\* request > 0, with zero savings, current_value "No limit" and the given
\* recommended limit; request = 0 yields no recommendation of either kind.
AdvisoryAsRuled(recs, type, rightsizing_type, req, limit, recommended) ==
    /\ IF limit = Zero /\ RGt(req, Zero)
       THEN /\ Cardinality(OfType(recs, type)) = 1
            /\ \A i \in OfType(recs, type) :
                   /\ recs[i].estimated_savings = Zero
                   /\ recs[i].current_value = "No limit"
                   /\ recs[i].recommended_value.number = recommended
       ELSE OfType(recs, type) = {}
    /\ req = Zero => OfType(recs, type) = {} /\ OfType(recs, rightsizing_type) = {}

AtLeastOne(x) == IF RGt(x, RInt(1)) THEN x ELSE RInt(1)

C10_ScoreFollowsZ ==
    Called("detect_cost_anomalies") =>
        LET hourly == backend.hourly[request.namespace]
            current == backend.current[request.namespace]
        IN  (CurrentUsable(current) /\ HasSeries(hourly) /\ Len(PointsOf(hourly)) > 24) =>
                LET pts == PointsOf(hourly)
                    v == variance(pts)
                    d == RSub(CurrentOf(current), np_mean(pts))
                    dd == RMul(d, d)
                    score == result.out.value.anomaly_score
                    z == RAdd(RDiv(score, RInt(50)), RInt(1))
                IN  /\ result.out.ok
                    /\ (\A i \in 1..Len(pts) : pts[i] = pts[1]) =>
                           /\ v = Zero
                           /\ score = IF CurrentOf(current) = pts[1] THEN Zero ELSE Hundred
                    /\ RGt(v, Zero) =>
                           /\ RLe(dd, v) => score = Zero
                           /\ dd = RMul(RInt(4), v) => score = RInt(50)
                           /\ RLe(RMul(RInt(9), v), dd) => score = Hundred
                           /\ (RLt(v, dd) /\ RLt(dd, RMul(RInt(9), v))) =>
                                  RMul(RMul(z, z), v) = dd

C10_Witness ==
    /\ Called("detect_cost_anomalies")
    /\ HasSeries(backend.hourly[request.namespace])
    /\ Len(PointsOf(backend.hourly[request.namespace])) > 24
    /\ RGt(variance(PointsOf(backend.hourly[request.namespace])), Zero)
    /\ result.out.ok
    /\ result.out.value.anomaly_score = RInt(50)

-----------------------------------------------------------------------------
\* Properties of the HTTP requests.

Served == result.done /\ request.op = "GET"

\* C1 as stated: whenever the execution of one of the seven queries fails,
\* with either client, get_namespace_resources raises and the request ends
\* with status 500; no list of records is returned.
C1_BackendFailurePropagates ==
    (Served /\ \E q \in AggNames : backend.agg[q].failed) =>
        /\ ~result.out.resources.ok
        /\ result.out.status_code = 500

\* The items of a query result as the aggregation sees them, and the texts
\* a query holds for a namespace.
ItemsSeen(q) == IF backend.agg[q].failed THEN << >> ELSE backend.agg[q].result
LabelsIn(q) ==
    {ItemsSeen(q)[i].metric.namespace :
        i \in {j \in 1..Len(ItemsSeen(q)) :
                  /\ "metric" \in DOMAIN ItemsSeen(q)[j]
                  /\ "namespace" \in DOMAIN ItemsSeen(q)[j].metric}}
TextsFor(q, ns) ==
    {ItemsSeen(q)[i].value[2] :
        i \in {j \in 1..Len(ItemsSeen(q)) :
                  /\ "metric" \in DOMAIN ItemsSeen(q)[j]
                  /\ "namespace" \in DOMAIN ItemsSeen(q)[j].metric
                  /\ ItemsSeen(q)[j].metric.namespace = ns
                  /\ "value" \in DOMAIN ItemsSeen(q)[j]}}

\* C9: get_namespace_resources returns exactly one record for every
\* namespace label that occurs in at least one of the seven query results and
\* none for any other namespace; each field equals the value of the namespace
\* in the matching query result and is 0 when that query has no entry for it.
C9_OneRecordPerLabel ==
    (Served /\ result.out.resources.ok) =>
        LET recs == result.out.resources.value
            labels == UNION {LabelsIn(q) : q \in AggNames}
        IN  /\ {recs[i].namespace : i \in 1..Len(recs)} = labels
            /\ Len(recs) = Cardinality(labels)
            /\ \A i \in 1..Len(recs) : \A q \in AggNames :
                   IF TextsFor(q, recs[i].namespace) = {}
                   THEN recs[i][q] = Zero
                   ELSE \A t \in TextsFor(q, recs[i].namespace) : recs[i][q] = FloatText[t]

C9_Witness ==
    /\ Served
    /\ result.out.resources.ok
    /\ Len(result.out.resources.value) = 2
    /\ \E i \in 1..2 :
           /\ result.out.resources.value[i].namespace = "b"
           /\ \A q \in AggNames : result.out.resources.value[i][q] = Zero
    /\ \E i \in 1..2 :
           /\ result.out.resources.value[i].namespace = "a"
           /\ result.out.resources.value[i].cpu_request = RInt(1)
           /\ result.out.resources.value[i].cost = Zero

\* C4 as stated: in a request over several namespaces, when no query
\* execution fails, bad data of one namespace (an unusable series, an
\* unparsable current cost) never fails the request: the response is a
\* success with one result for every aggregated namespace in each list.
C4_BadDataIsLocal ==
    (/\ Served
     /\ request.path \in {"/cost-anomalies", "/cost-forecasts", "/all-insights"}
     /\ result.out.resources.ok
     /\ \A k \in DOMAIN backend \ {"connect_ok", "agg"} :
            \A ns \in Namespaces : ~backend[k][ns].failed)
    => /\ result.out.status_code = 200
       /\ \A k \in {"cost_anomalies", "cost_forecasts"} \cap DOMAIN result.out.body :
              /\ Len(result.out.body[k]) = Len(result.out.resources.value)
              /\ \A i \in 1..Len(result.out.body[k]) :
                     result.out.body[k][i].namespace = result.out.resources.value[i].namespace

-----------------------------------------------------------------------------
\* Errors of the analyzers in a request.

AnalyzerNames ==
    {"get_namespace_resources", "calculate_cost_efficiency", "generate_recommendations",
     "detect_cost_anomalies", "generate_cost_forecast"}

NamesOp(text, op) == \E i \in 1..Len(text) : text[i] = op

AggregatedNs ==
    {result.out.resources.value[i].namespace : i \in 1..Len(result.out.resources.value)}

\* An exception leaves the analysis of namespace ns: a query execution fails
\* under PrometheusConnect, or the current cost is a text float() rejects.
LetsOut(ns, series, current) ==
    \/ /\ prom_client = "PrometheusConnect"
       /\ (backend[series][ns].failed \/ backend[current][ns].failed)
    \/ /\ ~backend[current][ns].failed
       /\ HasValue(backend[current][ns])
       /\ backend[current][ns].result[1].value[2] \notin DOMAIN FloatText

AnomalyRaised ==
    /\ request.path \in {"/cost-anomalies", "/all-insights"}
    /\ \E ns \in AggregatedNs : LetsOut(ns, "hourly", "current")

ForecastRaised ==
    /\ request.path \in {"/cost-forecasts", "/all-insights"}
    /\ \E ns \in AggregatedNs : LetsOut(ns, "daily", "monthly")

AnalyzerRaised ==
    ~result.out.resources.ok \/ AnomalyRaised \/ ForecastRaised

\* The analyzer whose exception ends the request: the handlers run the
\* aggregation first, then anomalies for every namespace, then forecasts.
FailingOp ==
    IF ~result.out.resources.ok THEN "get_namespace_resources"
    ELSE IF AnomalyRaised THEN "detect_cost_anomalies"
    ELSE "generate_cost_forecast"

\* C11 as stated: an exception that leaves an analyzer while a request is
\* served ends the request with status 500 and a response message (the detail
\* of the HTTPException) that names the failing operation.
C11_ErrorDetailNamesOperation ==
    (Served /\ AnalyzerRaised) =>
        /\ result.out.status_code = 500
        /\ NamesOp(result.out.detail, FailingOp)

\* C11 amended: such an exception ends the request with status 500, never
\* with a success or another status; the line handle_errors logs names the
\* failing operation, and the detail of the response is "Error processing
\* request" followed by the text of the exception, which names no analyzer.
C11_ErrorIs500AndLogNamesOperation ==
    (Served /\ AnalyzerRaised) =>
        /\ result.out.status_code = 500
        /\ "body" \notin DOMAIN result.out
        /\ NamesOp(result.out.logged, FailingOp)
        /\ \A op \in AnalyzerNames \ {FailingOp} : ~NamesOp(result.out.logged, op)
        /\ result.out.detail[1] = "Error processing request"
        /\ \A op \in AnalyzerNames : ~NamesOp(result.out.detail, op)

C11_Witness ==
    /\ Served
    /\ request.path = "/all-insights"
    /\ result.out.resources.ok
    /\ ~AnomalyRaised
    /\ ForecastRaised
    /\ result.out.status_code = 500
    /\ NamesOp(result.out.logged, "generate_cost_forecast")

-----------------------------------------------------------------------------
\* The same call made a second time.

Again(out) == [done |-> TRUE, out |-> out, again |-> TRUE]

\* The client in use, the outcome and the gauges after one call of an analyzer.
called(client, out, g) == [client |-> client, out |-> out, gauges |-> g]

anomaly_called(client, out, g) ==
    called(client, out, IF out.ok THEN publish_anomaly(g, out.value) ELSE g)

forecast_called(client, out, g) ==
    called(client, out, IF out.ok THEN publish_forecast(g, out.value) ELSE g)

invoke(req, client, bk, g) ==
    CASE req.op = "calculate_cost_efficiency" ->
           called(client, Return(calculate_cost_efficiency(req.resource_data)),
                  publish_efficiency(g, req.resource_data))
      [] req.op = "generate_recommendations" ->
           called(client, Return(generate_recommendations(req.resource_data)),
                  publish_savings(g, generate_recommendations(req.resource_data)))
      [] req.op = "detect_cost_anomalies" ->
           anomaly_called(get_prometheus_client(client, bk.connect_ok),
                          detect_cost_anomalies(req.namespace,
                                                get_prometheus_client(client, bk.connect_ok),
                                                bk.hourly[req.namespace],
                                                bk.current[req.namespace]), g)
      [] req.op = "generate_cost_forecast" ->
           forecast_called(get_prometheus_client(client, bk.connect_ok),
                           generate_cost_forecast(req.namespace,
                                                  get_prometheus_client(client, bk.connect_ok),
                                                  bk.daily[req.namespace],
                                                  bk.monthly[req.namespace]), g)

Repeated(r) ==
    /\ prom_client' = r.client
    /\ result' = Again(r.out)
    /\ gauges' = r.gauges

CallAgain ==
    /\ result.done
    /\ "again" \notin DOMAIN result
    /\ Repeated(invoke(request, prom_client, backend, gauges))
    /\ UNCHANGED <<backend, request>>

NextTwice ==
    \/ Next
    \/ CallAgain

SpecTwice == Init /\ [][NextTwice]_vars

\* C12: an analyzer called a second time with the same input (the same
\* record, or the same namespace and an unchanged backend) returns the value
\* (or raises the exception) of the first call and leaves every gauge at the
\* value the first call set: the registry after two calls is the registry
\* after one.
C12_SecondCallChangesNothing ==
    [][result.done => (result'.out = result.out /\ gauges' = gauges)]_vars

C12_Witness ==
    /\ result.done
    /\ "again" \in DOMAIN result
    /\ request.op = "generate_recommendations"
    /\ Len(result.out.value) = 2
    /\ \E key \in DOMAIN gauges : RGt(gauges[key], Zero)

-----------------------------------------------------------------------------
\* The startup handler (app.py).

\* The analyzers the loop of startup calls for one record, in order.
StartupKinds == << "cost_efficiencies", "recommendations", "cost_anomalies", "cost_forecasts" >>

\* The loop so far: whether it still runs, the gauges, the calls made.
startup_state(ok, g, invoked) == [ok |-> ok, gauges |-> g, invoked |-> invoked]

after_call(kind, rd, st, r) ==
    startup_state(r.out.ok, r.gauges, Append(st.invoked, << AnalyzerOf(kind), rd.namespace >>))

\* handle_errors(<analyzer>, data): skipped once an earlier call has raised.
startup_call(kind, client, bk, rd, st) ==
    IF ~st.ok THEN st
    ELSE after_call(kind, rd, st, analyze(kind, client, bk, rd, st.gauges))

RECURSIVE startup_calls(_, _, _, _, _)
startup_calls(kinds, client, bk, rd, st) ==
    IF kinds = << >> THEN st
    ELSE startup_calls(Tail(kinds), client, bk, rd,
                       startup_call(Head(kinds), client, bk, rd, st))

RECURSIVE startup_loop(_, _, _, _)
startup_loop(client, bk, records, st) ==
    IF records = << >> THEN st
    ELSE startup_loop(client, bk, Tail(records),
                      startup_calls(StartupKinds, client, bk, Head(records), st))

\* The body of the try block: the exception that leaves it, if any.
startup_tried(resources, st) ==
    [raised |-> ~st.ok, resources |-> resources, invoked |-> st.invoked, gauges |-> st.gauges]

startup_try(client, bk, resources, g) ==
    IF ~resources.ok
    THEN startup_tried(resources, startup_state(FALSE, g, << >>))
    ELSE startup_tried(resources,
                       startup_loop(client, bk, resources.value, startup_state(TRUE, g, << >>)))

\* startup without its except clause.
startup_unguarded(tried) ==
    [reply |-> [ok |-> ~tried.raised, resources |-> tried.resources, invoked |-> tried.invoked],
     gauges |-> tried.gauges]

\* except Exception: the error is logged and startup returns.
startup_caught(tried) ==
    [reply |-> [ok |-> TRUE, resources |-> tried.resources, invoked |-> tried.invoked],
     gauges |-> tried.gauges]

startup(client, bk, order, g) ==
    startup_caught(startup_try(client, bk, get_namespace_resources(client, bk.agg, order), g))

InitStartup ==
    /\ prom_client = "None"
    /\ gauges = NoGauges
    /\ result = Pending
    /\ request = [op |-> "startup"]
    /\ backend \in [connect_ok : BOOLEAN,
                    agg : {FullAgg, OnlyA, EmptyAgg, [FullAgg EXCEPT !["cost"] = Failed]},
                    hourly : [Namespaces -> {Failed, GoodHourly}],
                    current : [Namespaces -> {GoodCurrent, Unparsable}],
                    daily : [Namespaces -> {GoodDaily, Unusable}],
                    monthly : [Namespaces -> {Failed, GoodCurrent, Unparsable}]]

Startup ==
    /\ ~result.done
    /\ request.op = "startup"
    /\ \E order \in Orders :
          Respond(get_prometheus_client(prom_client, backend.connect_ok),
                  startup(get_prometheus_client(prom_client, backend.connect_ok),
                          backend, order, gauges))
    /\ UNCHANGED <<backend, request>>

NextStartup == Startup

SpecStartup == InitStartup /\ [][NextStartup]_vars

\* The calls startup makes when none raises, and the call that raises.
RECURSIVE CallsFor(_)
CallsFor(records) ==
    IF records = << >> THEN << >>
    ELSE << << "calculate_cost_efficiency", Head(records).namespace >>,
            << "generate_recommendations", Head(records).namespace >>,
            << "detect_cost_anomalies", Head(records).namespace >>,
            << "generate_cost_forecast", Head(records).namespace >> >>
         \o CallsFor(Tail(records))

CallRaises(call) ==
    \/ call[1] = "detect_cost_anomalies" /\ LetsOut(call[2], "hourly", "current")
    \/ call[1] = "generate_cost_forecast" /\ LetsOut(call[2], "daily", "monthly")

\* The gauge a call sets whenever it returns.
GaugeOf(call) ==
    CASE call[1] = "calculate_cost_efficiency" -> << "finops_efficiency_score", call[2] >>
      [] call[1] = "detect_cost_anomalies" -> << "finops_anomaly_score", call[2] >>
      [] call[1] = "generate_cost_forecast" -> << "finops_cost_forecast", call[2] >>

Populated(call) ==
    call[1] /= "generate_recommendations" => GaugeOf(call) \in DOMAIN gauges

\* C13 as stated: when startup finishes it has not raised, all four analyzers
\* have been invoked for every namespace the aggregation discovered, and every
\* discovered namespace has its gauges populated.
C13_StartupPopulatesEveryNamespace ==
    (Called("startup") /\ result.out.resources.ok) =>
        LET calls == CallsFor(result.out.resources.value)
        IN  /\ result.out.ok
            /\ result.out.invoked = calls
            /\ \A i \in 1..Len(calls) : Populated(calls[i])

\* C13 amended: startup never raises; it invokes the four analyzers for the
\* discovered namespaces in order until the first call that raises, which
\* ends the loop: the calls before it have set their gauges, that call and
\* every later one have set none.  When no call raises, every discovered
\* namespace has its gauges populated.
C13_StartupStopsAtFirstError ==
    Called("startup") =>
        /\ result.out.ok
        /\ IF ~result.out.resources.ok
           THEN result.out.invoked = << >> /\ gauges = NoGauges
           ELSE LET calls == CallsFor(result.out.resources.value)
                    made == result.out.invoked
                IN  /\ Len(made) <= Len(calls)
                    /\ \A i \in 1..Len(made) : made[i] = calls[i]
                    /\ \A i \in 1..Len(calls) :
                           /\ (i < Len(made) => ~CallRaises(calls[i]))
                           /\ (i = Len(made) /\ i < Len(calls) => CallRaises(calls[i]))
                           /\ calls[i][1] /= "generate_recommendations" =>
                                  (GaugeOf(calls[i]) \in DOMAIN gauges
                                       <=> (i <= Len(made) /\ ~CallRaises(calls[i])))
                    /\ (\A i \in 1..Len(calls) : ~CallRaises(calls[i])) =>
                           /\ made = calls
                           /\ \A i \in 1..Len(calls) : Populated(calls[i])

C13_Witness ==
    /\ Called("startup")
    /\ result.out.resources.ok
    /\ Len(result.out.resources.value) = 2
    /\ Len(result.out.invoked) = 7
    /\ CallRaises(result.out.invoked[7])
    /\ << "finops_cost_forecast", result.out.invoked[1][2] >> \in DOMAIN gauges
    /\ << "finops_efficiency_score", result.out.invoked[7][2] >> \in DOMAIN gauges
    /\ << "finops_anomaly_score", result.out.invoked[7][2] >> \notin DOMAIN gauges

-----------------------------------------------------------------------------
\* Concurrent first use of get_prometheus_client (modules/prometheus.py).
\* Each thread runs the function statement by statement; the global is read
\* and written without a lock.

NumThreads == 3
Threads == 1..NumThreads

\* The instance a thread constructs, and the fallback.
PrometheusConnect(t) == [class |-> "PrometheusConnect", by |-> t]
FallbackPrometheusClient == [class |-> "FallbackPrometheusClient"]
NoClient == [class |-> "None"]

\* A call in flight: its position, the instance its connection check runs on
\* and whether that check has succeeded.
Entered == [op |-> "get_prometheus_client", pc |-> "if", target |-> NoClient, checked |-> FALSE]

InitRace ==
    /\ prom_client = NoClient
    /\ gauges = NoGauges
    /\ backend \in [connect_ok : BOOLEAN]
    /\ request = [t \in Threads |-> Entered]
    /\ result = [t \in Threads |-> Pending]

\* if prom_client is None:
ClientTest(t) ==
    /\ request[t].pc = "if"
    /\ request' = [request EXCEPT ![t].pc = IF prom_client = NoClient THEN "construct" ELSE "return"]
    /\ UNCHANGED <<prom_client, backend, result, gauges>>

\* prom_client = PrometheusConnect(...)
ClientConstruct(t) ==
    /\ request[t].pc = "construct"
    /\ prom_client' = PrometheusConnect(t)
    /\ request' = [request EXCEPT ![t].pc = "load"]
    /\ UNCHANGED <<backend, result, gauges>>

\* prom_client.check_prometheus_connection(): the global is read again
ClientLoad(t) ==
    /\ request[t].pc = "load"
    /\ request' = [request EXCEPT ![t].pc = "check", ![t].target = prom_client]
    /\ UNCHANGED <<prom_client, backend, result, gauges>>

\* the check returns, or raises (no connection, or no such method on the fallback)
ClientCheck(t) ==
    /\ request[t].pc = "check"
    /\ request' = IF request[t].target.class = "PrometheusConnect" /\ backend.connect_ok
                  THEN [request EXCEPT ![t].pc = "return", ![t].checked = TRUE]
                  ELSE [request EXCEPT ![t].pc = "except"]
    /\ UNCHANGED <<prom_client, backend, result, gauges>>

\* except Exception: prom_client = FallbackPrometheusClient(...)
ClientExcept(t) ==
    /\ request[t].pc = "except"
    /\ prom_client' = FallbackPrometheusClient
    /\ request' = [request EXCEPT ![t].pc = "return"]
    /\ UNCHANGED <<backend, result, gauges>>

\* return prom_client
ClientReturn(t) ==
    /\ request[t].pc = "return"
    /\ result' = [result EXCEPT ![t] = Done(Return(prom_client))]
    /\ request' = [request EXCEPT ![t].pc = "done"]
    /\ UNCHANGED <<prom_client, backend, gauges>>

NextRace ==
    \E t \in Threads :
        \/ ClientTest(t)
        \/ ClientConstruct(t)
        \/ ClientLoad(t)
        \/ ClientCheck(t)
        \/ ClientExcept(t)
        \/ ClientReturn(t)

SpecRace == InitRace /\ [][NextRace]_vars

\* A connection check on the instance has succeeded.
CheckSucceeded(client) ==
    \E t \in Threads : request[t].checked /\ request[t].target = client

\* C14 as stated: under concurrent first use every caller receives a
\* PrometheusConnect whose connection check has succeeded or a
\* FallbackPrometheusClient, never a client whose check is pending or has
\* failed.
C14_CallersReceiveCheckedClient ==
    \A t \in Threads :
        result[t].done =>
            \/ result[t].out.value = FallbackPrometheusClient
            \/ /\ result[t].out.value.class = "PrometheusConnect"
               /\ CheckSucceeded(result[t].out.value)

-----------------------------------------------------------------------------
\* The savings gauges.

SavingsKey(rec) == << "finops_optimization_savings", rec.namespace, rec.recommendation_type >>
SavingsKeys == {key \in DOMAIN gauges : key[1] = "finops_optimization_savings"}
Advisories == {"add_cpu_limits", "add_memory_limits"}

\* C15 as stated: after generate_recommendations returns, the savings gauge
\* of every returned rightsizing recommendation equals its estimated_savings,
\* and no savings gauge is published for the limit advisories.
C15_NoGaugeForAdvisories ==
    Called("generate_recommendations") =>
        \A i \in 1..Len(result.out.value) :
            LET rec == result.out.value[i]
            IN  IF rec.recommendation_type \in Advisories
                THEN SavingsKey(rec) \notin DOMAIN gauges
                ELSE /\ SavingsKey(rec) \in DOMAIN gauges
                     /\ gauges[SavingsKey(rec)] = rec.estimated_savings

\* C15 amended: after generate_recommendations returns, the savings gauge of
\* every returned recommendation equals its estimated_savings; that includes
\* the limit advisories, whose gauge is set to 0.  It sets no other savings
\* gauge.
C15_GaugeForEveryRecommendation ==
    Called("generate_recommendations") =>
        /\ \A i \in 1..Len(result.out.value) :
               /\ SavingsKey(result.out.value[i]) \in DOMAIN gauges
               /\ gauges[SavingsKey(result.out.value[i])] = result.out.value[i].estimated_savings
               /\ result.out.value[i].recommendation_type \in Advisories =>
                      gauges[SavingsKey(result.out.value[i])] = Zero
        /\ SavingsKeys = {SavingsKey(result.out.value[i]) : i \in 1..Len(result.out.value)}

C15_Witness ==
    /\ Called("generate_recommendations")
    /\ \E i, j \in 1..Len(result.out.value) :
           /\ result.out.value[i].recommendation_type = "cpu_request_rightsizing"
           /\ RGt(gauges[SavingsKey(result.out.value[i])], Zero)
           /\ result.out.value[j].recommendation_type = "add_memory_limits"
           /\ gauges[SavingsKey(result.out.value[j])] = Zero

-----------------------------------------------------------------------------
\* A sequence of requests against a backend that changes between them.

MaxRequests == 3

\* Records of a namespace that earn a rightsizing recommendation, a limit
\* advisory, or nothing.
SessionRecords ==
    {rd \in ResourceDatas :
        /\ rd.cpu_request \in {Zero, RInt(2)}
        /\ rd.cpu_usage \in {Rat(1, 2), RInt(2)}
        /\ rd.memory_request = Zero
        /\ rd.memory_usage = Zero
        /\ rd.memory_limit = Zero}

SessionAggs == {FullAgg, OnlyA, EmptyAgg, [FullAgg EXCEPT !["cpu_usage"] = Answer(<< Item("a", "1") >>)]}

InitSession ==
    /\ prom_client = "None"
    /\ gauges = NoGauges
    /\ result = Pending
    /\ request = [op |-> "none", n |-> 0]
    /\ backend = [connect_ok |-> TRUE, agg |-> EmptyAgg]

SessionCall(op) ==
    /\ request.n < MaxRequests
    /\ \E rd \in SessionRecords :
          /\ request' = [op |-> op, resource_data |-> rd, n |-> request.n + 1]
          /\ Repeated(invoke([op |-> op, resource_data |-> rd], prom_client, backend, gauges))
    /\ UNCHANGED backend

SessionGet(path) ==
    /\ request.n < MaxRequests
    /\ \E agg \in SessionAggs, order \in Orders :
          /\ request' = [op |-> "GET", path |-> path, n |-> request.n + 1]
          /\ backend' = [backend EXCEPT !.agg = agg]
          /\ Respond(get_prometheus_client(prom_client, backend.connect_ok),
                     endpoint(path, get_prometheus_client(prom_client, backend.connect_ok),
                              [backend EXCEPT !.agg = agg], order, gauges))

\* POST /update-metrics answers a fixed status and touches nothing.
force_update_metrics ==
    /\ request.n < MaxRequests
    /\ request' = [op |-> "POST", path |-> "/update-metrics", n |-> request.n + 1]
    /\ result' = Done(Return("Metrics are updated automatically with each request"))
    /\ UNCHANGED <<prom_client, backend, gauges>>

NextSession ==
    \/ SessionCall("calculate_cost_efficiency")
    \/ SessionCall("generate_recommendations")
    \/ SessionGet("/cost-efficiency")
    \/ SessionGet("/recommendations")
    \/ force_update_metrics

SpecSession == InitSession /\ [][NextSession]_vars

\* The namespaces a request has worked on.
NamespacesOf(req, res) ==
    IF req.op = "GET"
    THEN IF res.out.resources.ok
         THEN {res.out.resources.value[i].namespace : i \in 1..Len(res.out.resources.value)}
         ELSE {}
    ELSE IF req.op = "POST" THEN {} ELSE {req.resource_data.namespace}

\* The savings gauges a direct call of generate_recommendations emits.
EmittedSavings(req, res) ==
    IF req.op = "generate_recommendations"
    THEN {SavingsKey(res.out.value[i]) : i \in 1..Len(res.out.value)}
    ELSE {}

\* C16: gauges are only ever set, never cleared.  No request removes a
\* gauge; generate_recommendations leaves unchanged the savings gauge of every
\* (namespace, recommendation_type) pair for which it returns nothing; a
\* request leaves unchanged every gauge of a namespace that is absent from its
\* aggregation; POST /update-metrics changes none.  A gauge thus keeps the value
\* of the last call that emitted it.
C16_GaugesOnlySetNeverCleared ==
    [][/\ DOMAIN gauges \subseteq DOMAIN gauges'
       /\ \A key \in DOMAIN gauges :
              /\ key[2] \notin NamespacesOf(request', result') => gauges'[key] = gauges[key]
              /\ (request'.op = "generate_recommendations"
                  /\ key \notin EmittedSavings(request', result')) => gauges'[key] = gauges[key]
       /\ \A key \in DOMAIN gauges' \ DOMAIN gauges : key[2] \in NamespacesOf(request', result')
      ]_vars

\* A stale gauge: the latest call for the namespace recommends nothing while
\* the savings gauge an earlier call set is still published.
C16_Witness ==
    /\ request.op = "generate_recommendations"
    /\ result.done
    /\ result.out.value = << >>
    /\ \E key \in SavingsKeys :
           key[2] = request.resource_data.namespace /\ RGt(gauges[key], Zero)

====
